---- MODULE Spec2Model ----
(***************************************************************************)
(* A model of src/src/main.rs of sezna/woo: the hyper service `router`,    *)
(* the handler `nearby_restaurants`, the INSERT statement it formats, and  *)
(* the `places` table the statement is executed against.                   *)
(*                                                                         *)
(* Text (a Rust String) is a sequence of pieces.  A piece is one character *)
(* of a field ("a", "b", "'", ...), one character the format strings add   *)
(* ("(", ")", ",", " ", "'", "{", "}", "\"", "\\"), a formatted f32, or    *)
(* one of the fixed fragments of the statement's format string.            *)
(***************************************************************************)
EXTENDS Integers, Sequences, FiniteSets, TLC

\* ------------------------------------------------------------------ bounds

\* Request slots that may be in flight at once under SpecConc.
NReq == 2
\* Requests the server accepts in one behaviour.
MaxRequests == 2
\* Longest `results` array of an upstream response under Spec.
MaxListings == 2

Reqs == 1..NReq

\* ------------------------------------------------------------ text helpers

Range(s) == {s[i] : i \in DOMAIN s}

RECURSIVE join(_, _)
\* [String]::join(sep) (lines 119 and 131).
join(ss, sep) ==
    IF ss = <<>> THEN <<>>
    ELSE IF Len(ss) = 1 THEN ss[1]
    ELSE ss[1] \o sep \o join(Tail(ss), sep)

RECURSIVE replace(_, _, _)
\* str::replace with a one-character pattern (lines 110 and 117).
replace(s, from, to) ==
    IF s = <<>> THEN <<>>
    ELSE (IF Head(s) = from THEN to ELSE <<Head(s)>>) \o replace(Tail(s), from, to)

\* "\'{}\'" in the format string of line 108: the argument between two quotes.
Quoted(s) == <<"'">> \o s \o <<"'">>

\* ----------------------------------------------------------- static data

\* include_bytes!("html/index.html") (line 16), as one opaque blob.
INDEX == "html/index.html"
INTERNAL_SERVER_ERROR == "Internal Server Error"
NOTFOUND == "Not Found"

Methods == {"GET", "POST", "PUT"}
Paths == {"/", "/index.html", "/nearby_restaurants", "/nope"}

\* ------------------------------------------------------- inbound requests

JStr(v) == [t |-> "string", v |-> v]
JNum(v) == [t |-> "number", v |-> v]

\* Request bodies as received: bytes that are no JSON, or a JSON object given
\* by its members.
Bodies ==
    { [kind |-> "garbage", fields |-> <<>>],
      [kind |-> "object", fields |-> [latitude |-> JStr("40.7"), longitude |-> JStr("-74.0")]],
      [kind |-> "object", fields |-> [latitude |-> JStr("40.7"), longitude |-> JStr("-74.0"),
                                      radius |-> JNum("5")]],
      [kind |-> "object", fields |-> [latitude |-> JStr("40.7")]],
      [kind |-> "object", fields |-> [latitude |-> JNum("40.7"), longitude |-> JStr("-74.0")]] }

Requests == [method : Methods, path : Paths, body : Bodies]

ValidBody ==
    [kind |-> "object", fields |-> [latitude |-> JStr("40.7"), longitude |-> JStr("-74.0")]]
ConcRequests ==
    { [method |-> "POST", path |-> "/nearby_restaurants", body |-> ValidBody],
      [method |-> "POST", path |-> "/nearby_restaurants",
       body |-> [kind |-> "garbage", fields |-> <<>>]],
      [method |-> "GET", path |-> "/nope", body |-> [kind |-> "garbage", fields |-> <<>>]] }

NoRequest == [method |-> "", path |-> "", body |-> [kind |-> "none", fields |-> <<>>]]

\* from_reader as it would be with #[serde(default)] on both members: any JSON
\* object decodes, a member that is missing or no string as "".
from_reader_defaulting(body) ==
    IF body.kind = "object"
    THEN [ok |-> TRUE, latitude |-> "", longitude |-> ""]
    ELSE [ok |-> FALSE, latitude |-> "", longitude |-> ""]

\* serde_json::from_reader into NearbyRestaurantsRequest (lines 45-49, 93-96):
\* both members must be there and be strings; unknown members are ignored.
from_reader(body) ==
    IF body.kind = "object"
       /\ {"latitude", "longitude"} \subseteq DOMAIN body.fields
       /\ body.fields.latitude.t = "string"
       /\ body.fields.longitude.t = "string"
    THEN [ok |-> TRUE, latitude |-> body.fields.latitude.v,
          longitude |-> body.fields.longitude.v]
    ELSE [ok |-> FALSE, latitude |-> "", longitude |-> ""]

\* The format! of line 97, kept as the values it interpolates.
QueryUrl(key, latitude, longitude) ==
    [key |-> key, location |-> <<latitude, longitude>>,
     rankby |-> "distance", type |-> "restaurant"]

NoUrl == [key |-> "", location |-> <<>>, rankby |-> "", type |-> ""]

\* ------------------------------------------------------ upstream responses

Str_a == <<"a">>
Str_b == <<"b">>
Str_q == <<"a", "'", "b">>

\* f32 values as serde_json parses them and as `{}` formats them: one piece.
Floats == {"40.7", "-74.0", "40.8", "-73.9"}

JLatLong(lat, lng) == [lat |-> lat, lng |-> lng]

\* One element of the upstream `results` array, as JSON.
JBase ==
    [business_status |-> Str_a, name |-> Str_a, place_id |-> Str_a, reference |-> Str_a,
     types |-> <<Str_a>>, vicinity |-> Str_a,
     geometry |-> [location |-> JLatLong("40.7", "-74.0"),
                   viewport |-> [northeast |-> JLatLong("40.8", "-73.9"),
                                 southwest |-> JLatLong("40.7", "-74.0")]]]

\* The same place under another name: a conflict on the table's key.
JNameQ == [JBase EXCEPT !.name = Str_q]
JStatusQ == [JBase EXCEPT !.business_status = Str_q]
JPlaceQ == [JBase EXCEPT !.place_id = Str_q]
JRefQ == [JBase EXCEPT !.reference = Str_q]
JVicQ == [JBase EXCEPT !.vicinity = Str_q]
JTypesQ == [JBase EXCEPT !.types = <<Str_q>>]
\* Another place, with two types and its own coordinates.
JOther ==
    [JBase EXCEPT !.name = Str_b, !.place_id = Str_b, !.types = <<Str_a, Str_b>>,
                  !.geometry.location = JLatLong("40.8", "-73.9")]
\* An element without its `vicinity` member.
JNoVicinity ==
    [business_status |-> Str_a, name |-> Str_a, place_id |-> Str_a, reference |-> Str_a,
     types |-> <<Str_a>>,
     geometry |-> [location |-> JLatLong("40.7", "-74.0"),
                   viewport |-> [northeast |-> JLatLong("40.8", "-73.9"),
                                 southwest |-> JLatLong("40.7", "-74.0")]]]

Catalog == {JBase, JNameQ, JStatusQ, JPlaceQ, JRefQ, JVicQ, JTypesQ, JOther}

SeqsUpTo(S, n) == UNION {[1..k -> S] : k \in 0..n}

\* What `reqwest::get(..).await?.bytes().await?` can come back with (line 98):
\* a transport error, bytes that are no JSON, or a JSON object.  The object may
\* carry members the structs do not name (`status`).
UpstreamError == [kind |-> "error", members |-> <<>>]
UpstreamGarbage == [kind |-> "garbage", members |-> <<>>]
UpstreamObject(token, results) ==
    [kind |-> "object",
     members |-> [next_page_token |-> token, results |-> results, status |-> <<"O", "K">>]]
\* An object whose shape PlacesNearbySearchResponse rejects.
UpstreamNoToken == [kind |-> "object", members |-> [results |-> <<>>]]
UpstreamBadListing ==
    [kind |-> "object", members |-> [next_page_token |-> Str_a, results |-> <<JNoVicinity>>]]

UpstreamReplies ==
    {UpstreamError, UpstreamGarbage, UpstreamNoToken, UpstreamBadListing}
    \cup {UpstreamObject(Str_a, ls) : ls \in SeqsUpTo(Catalog, MaxListings)}

ConcReplies ==
    {UpstreamError}
    \cup {UpstreamObject(Str_a, ls) : ls \in {<<>>, <<JBase>>, <<JNameQ>>, <<JOther, JBase>>}}

\* #[serde(rename = "lat")] / "lng" on LatLong (lines 80-86).
LatLong(j) == [latitude |-> j.lat, longitude |-> j.lng]

ListingMembers ==
    {"business_status", "geometry", "name", "place_id", "reference", "types", "vicinity"}

\* Deserialize for PlacesListing, PlacesLocation and Viewport (lines 57-78).
PlacesListing(j) ==
    [business_status |-> j.business_status,
     geometry |-> [location |-> LatLong(j.geometry.location),
                   viewport |-> [northeast |-> LatLong(j.geometry.viewport.northeast),
                                 southwest |-> LatLong(j.geometry.viewport.southwest)]],
     name |-> j.name, place_id |-> j.place_id, reference |-> j.reference,
     types |-> j.types, vicinity |-> j.vicinity]

NoResponse == [next_page_token |-> <<>>, results |-> <<>>]

\* serde_json::from_slice into PlacesNearbySearchResponse (lines 51-55, 99):
\* every named member must be there; members not named are dropped.
from_slice(bytes) ==
    IF bytes.kind = "object"
       /\ {"next_page_token", "results"} \subseteq DOMAIN bytes.members
       /\ \A i \in DOMAIN bytes.members.results :
              ListingMembers \subseteq DOMAIN bytes.members.results[i]
    THEN [ok |-> TRUE,
          value |-> [next_page_token |-> bytes.members.next_page_token,
                     results |-> [i \in DOMAIN bytes.members.results |->
                                      PlacesListing(bytes.members.results[i])]]]
    ELSE [ok |-> FALSE, value |-> NoResponse]

\* Serialize for LatLong with the two renames on the wrong members.
JsonLatLongSwapped(x) == [lat |-> x.longitude, lng |-> x.latitude]

\* Serialize for LatLong, with the renames.
JsonLatLong(x) == [lat |-> x.latitude, lng |-> x.longitude]

\* Serialize for PlacesListing.
JsonListing(x) ==
    [business_status |-> x.business_status,
     geometry |-> [location |-> JsonLatLong(x.geometry.location),
                   viewport |-> [northeast |-> JsonLatLong(x.geometry.viewport.northeast),
                                 southwest |-> JsonLatLong(x.geometry.viewport.southwest)]],
     name |-> x.name, place_id |-> x.place_id, reference |-> x.reference,
     types |-> x.types, vicinity |-> x.vicinity]

\* serde_json::to_string(&places_response) (line 159), as the JSON value written.
to_string(response) ==
    [next_page_token |-> response.next_page_token,
     results |-> [i \in DOMAIN response.results |-> JsonListing(response.results[i])]]

\* ------------------------------------------------- the INSERT statement

Sep == <<",", " ">>

\* The inner format! of lines 113-120: the types as an array literal.
TypesLiteral(types) ==
    <<"'", "{">>
    \o join([i \in DOMAIN types |->
                <<"\"">> \o replace(types[i], "'", <<"\\", "'">>) \o <<"\"">>], Sep)
    \o <<"}", "'">>

\* The twelve arguments of the format! of lines 107-128, each as it is written
\* into the tuple, in argument order.
TupleValues(x) ==
    << Quoted(x.business_status),
       Quoted(replace(x.name, "'", <<"'", "'">>)),
       Quoted(x.place_id),
       Quoted(x.reference),
       TypesLiteral(x.types),
       Quoted(x.vicinity),
       <<x.geometry.location.latitude>>,
       <<x.geometry.location.longitude>>,
       <<x.geometry.viewport.northeast.latitude>>,
       <<x.geometry.viewport.northeast.longitude>>,
       <<x.geometry.viewport.southwest.latitude>>,
       <<x.geometry.viewport.southwest.longitude>> >>

\* The closure of lines 106-129: one parenthesised tuple per listing.
FormatTuple(x) == <<"(">> \o join(TupleValues(x), Sep) \o <<")">>

\* Lines 102-131.
values_string(results) == join([i \in DOMAIN results |-> FormatTuple(results[i])], Sep)

InsertHead ==
    "INSERT INTO places (business_status, name, place_id, reference, types, vicinity, location_latitude, location_longitude, viewport_northeast_latitude, viewport_northeast_longitude, viewport_southwest_latitude, viewport_southwest_longitude) VALUES"
DoNothing == "ON CONFLICT DO NOTHING"

DoUpdate == "ON CONFLICT (place_id) DO UPDATE SET name = EXCLUDED.name"

\* The statement with an upsert for its conflict clause.
QueryStringUpsert(values) ==
    <<InsertHead, " ">> \o values \o <<" ", DoUpdate, ";">>

\* The format! of lines 133-152.
QueryString(values) ==
    <<InsertHead, " ">> \o values \o <<" ", DoNothing, ";">>

\* ---------------------------------------------------- the places table
\* The store's side: how PostgreSQL reads the statement's text and what the
\* INSERT does to the table.  The table's schema is in the repository's
\* migrations; its key is taken to be place_id.

RECURSIVE ScanLiteral(_, _, _)
\* The string constant whose opening quote is before position i of s: a quote
\* followed by a quote is one quote of the value, a quote alone closes it.
\* `next` is the position after the closing quote.
ScanLiteral(s, i, acc) ==
    IF i > Len(s) THEN [ok |-> FALSE, v |-> acc, next |-> i]
    ELSE IF s[i] # "'" THEN ScanLiteral(s, i + 1, Append(acc, s[i]))
    ELSE IF i < Len(s) /\ s[i + 1] = "'" THEN ScanLiteral(s, i + 2, Append(acc, "'"))
    ELSE [ok |-> TRUE, v |-> acc, next |-> i + 1]

RECURSIVE SkipSpaces(_, _)
SkipSpaces(s, i) == IF i <= Len(s) /\ s[i] = " " THEN SkipSpaces(s, i + 1) ELSE i

LiteralToken(lit) ==
    [k |-> IF lit.ok THEN "str" ELSE "error", v |-> lit.v, next |-> lit.next]

\* The token of s at position j, and where the next one starts.
TokenAt(s, j) ==
    IF j > Len(s) THEN [k |-> "end", v |-> <<>>, next |-> j]
    ELSE IF s[j] \in {"(", ")", ","} THEN [k |-> s[j], v |-> <<>>, next |-> j + 1]
    ELSE IF s[j] \in Floats THEN [k |-> "num", v |-> <<s[j]>>, next |-> j + 1]
    ELSE IF s[j] = "'" THEN LiteralToken(ScanLiteral(s, j + 1, <<>>))
    ELSE [k |-> "word", v |-> <<s[j]>>, next |-> j + 1]

NextToken(s, i) == TokenAt(s, SkipSpaces(s, i))

Value(t) == [k |-> t.k, v |-> t.v]

RECURSIVE ParseValueList(_, _, _)
\* A value t and the token u after it, inside a row.
AfterValue(s, t, u, acc) ==
    IF t.k \notin {"str", "num"} THEN [ok |-> FALSE, vals |-> acc, next |-> t.next]
    ELSE IF u.k = ")" THEN [ok |-> TRUE, vals |-> Append(acc, Value(t)), next |-> u.next]
    ELSE IF u.k = "," THEN ParseValueList(s, u.next, Append(acc, Value(t)))
    ELSE [ok |-> FALSE, vals |-> acc, next |-> t.next]

ValueThen(s, t, acc) == AfterValue(s, t, NextToken(s, t.next), acc)

\* value {, value} ")" from position i on, after an opening parenthesis.
ParseValueList(s, i, acc) == ValueThen(s, NextToken(s, i), acc)

RECURSIVE ParseRows(_, _, _)
\* A row's values vl and the token u after its closing parenthesis.
AfterRow(s, vl, u, acc) ==
    IF ~vl.ok THEN [ok |-> FALSE, rows |-> acc]
    ELSE IF u.k = "end" THEN [ok |-> TRUE, rows |-> Append(acc, vl.vals)]
    ELSE IF u.k = "," THEN ParseRows(s, u.next, Append(acc, vl.vals))
    ELSE [ok |-> FALSE, rows |-> acc]

RowThen(s, vl, acc) == AfterRow(s, vl, NextToken(s, vl.next), acc)

RowFrom(s, t, acc) ==
    IF t.k # "(" THEN [ok |-> FALSE, rows |-> acc]
    ELSE RowThen(s, ParseValueList(s, t.next, <<>>), acc)

\* "(" values ")" {, "(" values ")"} to the end of s: at least one row.
ParseRows(s, i, acc) == RowFrom(s, NextToken(s, i), acc)

ConflictClauses == {DoNothing, DoUpdate}

\* The statement read as INSERT INTO places (...) VALUES rows [conflict clause];
ParseStatement(q) ==
    LET n == Len(q)
        clause == IF n >= 4 /\ q[n - 1] \in ConflictClauses THEN q[n - 1] ELSE "none"
        last == IF clause = "none" THEN n - 1 ELSE n - 2
        rows == IF n >= 2 /\ q[1] = InsertHead /\ q[n] = ";"
                THEN ParseRows(SubSeq(q, 2, last), 1, <<>>)
                ELSE [ok |-> FALSE, rows |-> <<>>]
    IN  [ok |-> rows.ok, rows |-> rows.rows, conflict |-> clause]

\* The columns of the statement's column list: six of text, six of float.
NumColumns == 12
ColumnKinds == [c \in 1..NumColumns |-> IF c <= 6 THEN "str" ELSE "num"]
NameColumn == 2
PlaceIdColumn == 3

\* A parsed row as a row of the table: the values of its twelve columns.
RowOf(vals) == [c \in 1..NumColumns |-> vals[c].v]

RowFits(vals) ==
    /\ Len(vals) = NumColumns
    /\ \A c \in 1..NumColumns : vals[c].k = ColumnKinds[c]

RECURSIVE InsertRows(_, _, _)
\* The rows inserted one after the other under the statement's conflict clause.
InsertRows(table, rows, clause) ==
    IF rows = <<>> THEN [ok |-> TRUE, table |-> table]
    ELSE LET row == RowOf(Head(rows))
             same == {t \in table : t[PlaceIdColumn] = row[PlaceIdColumn]}
         IN  IF same = {} THEN InsertRows(table \cup {row}, Tail(rows), clause)
             ELSE IF clause = DoNothing THEN InsertRows(table, Tail(rows), clause)
             ELSE IF clause = DoUpdate THEN
                 InsertRows((table \ same)
                              \cup {[t EXCEPT ![NameColumn] = row[NameColumn]] : t \in same},
                            Tail(rows), clause)
             ELSE [ok |-> FALSE, table |-> table]

\* sqlx::query(&query_string).execute(pool) as the store answers it: an error
\* and the table as it was, or the table after the INSERT.
ExecuteStatement(table, q) ==
    LET p == ParseStatement(q)
    IN  IF \/ ~p.ok
           \/ \E i \in DOMAIN p.rows : ~RowFits(p.rows[i])
           \/ /\ p.conflict = DoUpdate
              /\ \E i, j \in DOMAIN p.rows :
                     i < j /\ p.rows[i][PlaceIdColumn].v = p.rows[j][PlaceIdColumn].v
        THEN [ok |-> FALSE, table |-> table]
        ELSE LET r == InsertRows(table, p.rows, p.conflict)
             IN  IF r.ok THEN r ELSE [ok |-> FALSE, table |-> table]

\* ------------------------------------------------------------- the server

VARIABLES
    api_key,          \* GOOGLE_PLACES_API_KEY in the process environment, or "unset"
    places,           \* the rows of the places table
    stderr,           \* what router's eprintln! has written, in order
    served,           \* requests accepted so far
    pc,               \* where each request's task is
    req,              \* the request each task serves
    query_url,        \* nearby_restaurants' local query_url
    body,             \* its local body: the bytes upstream answered with
    places_response,  \* its local places_response
    query_string,     \* its local query_string
    resp,             \* what router returned to hyper for the request
    trace             \* the steps the task has taken, in order

vars == <<api_key, places, stderr, served, pc, req, query_url, body, places_response,
          query_string, resp, trace>>

NoJson == to_string(NoResponse)
NoBody == [kind |-> "none", members |-> <<>>]
NoResp == [kind |-> "none", status |-> 0, content_type |-> "", bytes |-> "", json |-> NoJson,
           error |-> ""]

\* Ok(Response): the status, the content-type header and the body, which is
\* static bytes or a serialized JSON value.
OkResponse(status, content_type, bytes, json) ==
    [kind |-> "Ok", status |-> status, content_type |-> content_type, bytes |-> bytes,
     json |-> json, error |-> ""]

\* Err(e): router hands the error itself back to hyper; no Response exists.
ErrResult(e) ==
    [kind |-> "Err", status |-> 0, content_type |-> "", bytes |-> "", json |-> NoJson,
     error |-> e]

\* Response::new(INDEX.into()) (line 169): status 200 is Response's default.
IndexResponse == OkResponse(200, "", INDEX, NoJson)
\* Lines 173-176.
NotFoundResponse == OkResponse(404, "", NOTFOUND, NoJson)
\* Lines 156-160.
JsonResponse(response) == OkResponse(200, "application/json", "", to_string(response))

\* The match with the nearby_restaurants arm on the path alone.
RouteAnyMethod(method, path) ==
    IF method = "GET" /\ path \in {"/", "/index.html"} THEN "index"
    ELSE IF path = "/nearby_restaurants" THEN "nearby_restaurants"
    ELSE "not_found"

\* The match of lines 168-178 on (method, path).
Route(method, path) ==
    IF method = "GET" /\ path \in {"/", "/index.html"} THEN "index"
    ELSE IF method = "POST" /\ path = "/nearby_restaurants" THEN "nearby_restaurants"
    ELSE "not_found"

Init ==
    /\ api_key \in {"unset", "key"}
    /\ places = {}
    /\ stderr = <<>>
    /\ served = 0
    /\ pc = [r \in Reqs |-> "idle"]
    /\ req = [r \in Reqs |-> NoRequest]
    /\ query_url = [r \in Reqs |-> NoUrl]
    /\ body = [r \in Reqs |-> NoBody]
    /\ places_response = [r \in Reqs |-> NoResponse]
    /\ query_string = [r \in Reqs |-> <<>>]
    /\ resp = [r \in Reqs |-> NoResp]
    /\ trace = [r \in Reqs |-> <<>>]

\* A `?` of nearby_restaurants taken with an error: the function returns
\* Err(e), router prints it (lines 180-183) and returns it (line 184).
Fail(r, e) ==
    /\ resp' = [resp EXCEPT ![r] = ErrResult(e)]
    /\ stderr' = Append(stderr, e)
    /\ trace' = [trace EXCEPT ![r] = Append(@, "error")]
    /\ pc' = [pc EXCEPT ![r] = "done"]

\* router returns Ok(response): nothing is printed (line 181).
Return(r, response) ==
    /\ resp' = [resp EXCEPT ![r] = response]
    /\ pc' = [pc EXCEPT ![r] = "done"]
    /\ UNCHANGED stderr

\* hyper calls the service for a request (lines 207-210).
Accept(r, requests) ==
    /\ pc[r] = "idle"
    /\ served < MaxRequests
    /\ served' = served + 1
    /\ \E q \in requests : req' = [req EXCEPT ![r] = q]
    /\ pc' = [pc EXCEPT ![r] = "router"]
    /\ UNCHANGED <<api_key, places, stderr, query_url, body, places_response, query_string,
                   resp, trace>>

\* router's match (lines 168-178) for the arms that make no call.
RouterStatic(r) ==
    /\ pc[r] = "router"
    /\ Route(req[r].method, req[r].path) # "nearby_restaurants"
    /\ Return(r, IF Route(req[r].method, req[r].path) = "index"
                 THEN IndexResponse ELSE NotFoundResponse)
    /\ UNCHANGED <<api_key, places, served, req, query_url, body, places_response,
                   query_string, trace>>

\* router's match, the arm of line 170, and nearby_restaurants' line 89.
RouterNearby(r) ==
    /\ pc[r] = "router"
    /\ Route(req[r].method, req[r].path) = "nearby_restaurants"
    /\ IF api_key = "unset"
       THEN Fail(r, "env")
       ELSE /\ trace' = [trace EXCEPT ![r] = Append(@, "api_key")]
            /\ pc' = [pc EXCEPT ![r] = "aggregate"]
            /\ UNCHANGED <<resp, stderr>>
    /\ UNCHANGED <<api_key, places, served, req, query_url, body, places_response,
                   query_string>>

\* hyper::body::aggregate(req).await? (line 91): the body arrives whole, or
\* reading it fails.
Aggregate(r) ==
    /\ pc[r] = "aggregate"
    /\ \/ /\ pc' = [pc EXCEPT ![r] = "decode"]
          /\ UNCHANGED <<resp, stderr, trace>>
       \/ Fail(r, "aggregate")
    /\ UNCHANGED <<api_key, places, served, req, query_url, body, places_response,
                   query_string>>

\* Lines 93-97: decode the body, format the URL.
Decode(r) ==
    /\ pc[r] = "decode"
    /\ LET d == from_reader(req[r].body)
       IN  IF d.ok
           THEN /\ query_url' = [query_url EXCEPT ![r] =
                                    QueryUrl(api_key, d.latitude, d.longitude)]
                /\ trace' = [trace EXCEPT ![r] = Append(@, "decode")]
                /\ pc' = [pc EXCEPT ![r] = "get"]
                /\ UNCHANGED <<resp, stderr>>
           ELSE Fail(r, "request json") /\ UNCHANGED query_url
    /\ UNCHANGED <<api_key, places, served, req, body, places_response, query_string>>

\* reqwest::get(&query_url).await?.bytes().await? (line 98).
Get(r, replies) ==
    /\ pc[r] = "get"
    /\ \E reply \in replies :
         IF reply.kind = "error"
         THEN /\ resp' = [resp EXCEPT ![r] = ErrResult("reqwest")]
              /\ stderr' = Append(stderr, "reqwest")
              /\ trace' = [trace EXCEPT ![r] = @ \o <<"upstream_call", "error">>]
              /\ pc' = [pc EXCEPT ![r] = "done"]
              /\ UNCHANGED body
         ELSE /\ body' = [body EXCEPT ![r] = reply]
              /\ trace' = [trace EXCEPT ![r] = Append(@, "upstream_call")]
              /\ pc' = [pc EXCEPT ![r] = "from_slice"]
              /\ UNCHANGED <<resp, stderr>>
    /\ UNCHANGED <<api_key, places, served, req, query_url, places_response, query_string>>

\* Line 99, then lines 102-152: parse the bytes, format the statement.
Build(r) ==
    /\ pc[r] = "from_slice"
    /\ LET parsed == from_slice(body[r])
       IN  IF parsed.ok
           THEN /\ places_response' = [places_response EXCEPT ![r] = parsed.value]
                /\ query_string' = [query_string EXCEPT ![r] =
                                       QueryString(values_string(parsed.value.results))]
                /\ trace' = [trace EXCEPT ![r] = Append(@, "upstream_ok")]
                /\ pc' = [pc EXCEPT ![r] = "execute"]
                /\ UNCHANGED <<resp, stderr>>
           ELSE Fail(r, "upstream json") /\ UNCHANGED <<places_response, query_string>>
    /\ UNCHANGED <<api_key, places, served, req, query_url, body>>

\* Line 154 without its `?`: the result of execute is dropped, error or not.
ExecuteUnchecked(r) ==
    /\ pc[r] = "execute"
    /\ \E reachable \in BOOLEAN :
         LET res == ExecuteStatement(places, query_string[r])
         IN  /\ places' = IF reachable /\ res.ok THEN res.table ELSE places
             /\ trace' = [trace EXCEPT ![r] =
                             @ \o (IF reachable /\ res.ok THEN <<"db_execute", "db_ok">>
                                   ELSE <<"db_execute">>)]
             /\ pc' = [pc EXCEPT ![r] = "respond"]
             /\ UNCHANGED <<resp, stderr>>
    /\ UNCHANGED <<api_key, served, req, query_url, body, places_response, query_string>>

\* sqlx::query(&query_string).execute(pool).await? (line 154): the store runs
\* the statement, or the pool or the connection fails before it does.
Execute(r) ==
    /\ pc[r] = "execute"
    /\ \E reachable \in BOOLEAN :
         LET res == ExecuteStatement(places, query_string[r])
         IN  IF reachable /\ res.ok
             THEN /\ places' = res.table
                  /\ trace' = [trace EXCEPT ![r] = @ \o <<"db_execute", "db_ok">>]
                  /\ pc' = [pc EXCEPT ![r] = "respond"]
                  /\ UNCHANGED <<resp, stderr>>
             ELSE /\ resp' = [resp EXCEPT ![r] = ErrResult("sqlx")]
                  /\ stderr' = Append(stderr, "sqlx")
                  /\ trace' = [trace EXCEPT ![r] = @ \o <<"db_execute", "error">>]
                  /\ pc' = [pc EXCEPT ![r] = "done"]
                  /\ UNCHANGED places
    /\ UNCHANGED <<api_key, served, req, query_url, body, places_response, query_string>>

\* Lines 156-160, and router's return of the Ok (lines 180-184).
Respond(r) ==
    /\ pc[r] = "respond"
    /\ Return(r, JsonResponse(places_response[r]))
    /\ trace' = [trace EXCEPT ![r] = Append(@, "response")]
    /\ UNCHANGED <<api_key, places, served, req, query_url, body, places_response,
                   query_string>>

\* The task ends: its locals are dropped and hyper can hand the service the
\* next request.
Close(r) ==
    /\ pc[r] = "done"
    /\ pc' = [pc EXCEPT ![r] = "idle"]
    /\ req' = [req EXCEPT ![r] = NoRequest]
    /\ query_url' = [query_url EXCEPT ![r] = NoUrl]
    /\ body' = [body EXCEPT ![r] = NoBody]
    /\ places_response' = [places_response EXCEPT ![r] = NoResponse]
    /\ query_string' = [query_string EXCEPT ![r] = <<>>]
    /\ resp' = [resp EXCEPT ![r] = NoResp]
    /\ trace' = [trace EXCEPT ![r] = <<>>]
    /\ UNCHANGED <<api_key, places, stderr, served>>

\* One request at a time, any request, any upstream answer.
Next ==
    \E r \in {1} :
        \/ Accept(r, Requests)
        \/ RouterStatic(r)
        \/ RouterNearby(r)
        \/ Aggregate(r)
        \/ Decode(r)
        \/ Get(r, UpstreamReplies)
        \/ Build(r)
        \/ Execute(r)
        \/ Respond(r)
        \/ Close(r)

Spec == Init /\ [][Next]_vars

\* One task per request, the tasks interleaved at their await points
\* (lines 202-212).
NextConc ==
    \E r \in Reqs :
        \/ Accept(r, ConcRequests)
        \/ RouterStatic(r)
        \/ RouterNearby(r)
        \/ Aggregate(r)
        \/ Decode(r)
        \/ Get(r, ConcReplies)
        \/ Build(r)
        \/ Execute(r)
        \/ Respond(r)
        \/ Close(r)

SpecConc == Init /\ [][NextConc]_vars

\* ------------------------------------------------------------ properties

Steps(r) == Range(trace[r])
IsNearby(r) == req[r].method = "POST" /\ req[r].path = "/nearby_restaurants"
Parsed(r) == "upstream_ok" \in Steps(r)
Listings(r) == places_response[r].results
Is200Json(r) ==
    resp[r].kind = "Ok" /\ resp[r].status = 200 /\ resp[r].content_type = "application/json"

\* C1: when the parsed upstream response has no listings, no statement with
\* zero value tuples is built, no statement is executed against the pool, and
\* the finished request has the 200 JSON response.
C1_EmptyResponseSkipsPersistence ==
    \A r \in Reqs :
        (Parsed(r) /\ Listings(r) = <<>>) =>
            /\ query_string[r] = <<>>
            /\ "db_execute" \notin Steps(r)
            /\ (pc[r] = "done" => Is200Json(r))

\* The string fields of a listing by the column they are written to.
StringColumns == {1, 2, 3, 4, 6}
StringField(x, c) ==
    CASE c = 1 -> x.business_status
      [] c = 2 -> x.name
      [] c = 3 -> x.place_id
      [] c = 4 -> x.reference
      [] c = 6 -> x.vicinity

\* The text is one string constant from its first piece to its last, and the
\* constant's value is the field.
IsLiteralOf(text, field) ==
    /\ Len(text) >= 2
    /\ text[1] = "'"
    /\ ScanLiteral(text, 2, <<>>) = [ok |-> TRUE, v |-> field, next |-> Len(text) + 1]

\* C2: every string field of every listing is written into the statement so
\* that the quoted literal opened before it ends exactly where the field ends,
\* whatever quotes the field holds.
C2_StringFieldsAreEscaped ==
    \A r \in Reqs :
        Parsed(r) =>
            \A i \in DOMAIN Listings(r) : \A c \in StringColumns :
                IsLiteralOf(TupleValues(Listings(r)[i])[c], StringField(Listings(r)[i], c))

\* C3: a POST /nearby_restaurants request that failed at any step has, when it
\* is done, a response of status 500 with the fixed generic body, and the
\* failure is on stderr.
C3_FailureGivesGeneric500 ==
    \A r \in Reqs :
        (pc[r] = "done" /\ IsNearby(r) /\ "error" \in Steps(r)) =>
            /\ resp[r].kind = "Ok"
            /\ resp[r].status = 500
            /\ resp[r].bytes = INTERNAL_SERVER_ERROR
            /\ stderr # <<>>

\* A body of the shape {latitude: string, longitude: string}.
HasRequestShape(b) ==
    /\ b.kind = "object"
    /\ \A m \in {"latitude", "longitude"} : m \in DOMAIN b.fields /\ b.fields[m].t = "string"

C5_ResponseMirrorsUpstream ==
    \A r \in Reqs :
        (pc[r] = "done" /\ IsNearby(r) /\ resp[r].kind = "Ok") =>
            /\ Is200Json(r)
            /\ resp[r].json.next_page_token = body[r].members.next_page_token
            /\ Len(resp[r].json.results) = Len(body[r].members.results)
            /\ \A i \in DOMAIN body[r].members.results :
                   resp[r].json.results[i] = body[r].members.results[i]

\* The response carries a listing whose place the table already held under
\* another name: the INSERT added no row for it.
C5_Witness ==
    \E r \in Reqs :
        /\ pc[r] = "done" /\ Is200Json(r)
        /\ Len(resp[r].json.results) = 1
        /\ \E row \in places :
               /\ row[PlaceIdColumn] = resp[r].json.results[1].place_id
               /\ row[NameColumn] # resp[r].json.results[1].name

\* C6: the statement a request built, executed twice starting from an empty
\* places table: the second execution raises no error and leaves the table as
\* the first left it.
C6_SecondExecutionIsNoOp ==
    \A r \in Reqs :
        query_string[r] # <<>> =>
            /\ ExecuteStatement(ExecuteStatement({}, query_string[r]).table,
                                query_string[r]).ok
            /\ ExecuteStatement(ExecuteStatement({}, query_string[r]).table,
                                query_string[r]).table
                   = ExecuteStatement({}, query_string[r]).table

\* The value column c of a listing's row holds: the field, the types as the
\* array {"t1", "t2", ...}, or the coordinate.
ColumnValue(x, c) ==
    CASE c \in StringColumns -> StringField(x, c)
      [] c = 5 -> <<"{">> \o join([i \in DOMAIN x.types |-> <<"\"">> \o x.types[i] \o <<"\"">>],
                                 Sep) \o <<"}">>
      [] c = 7 -> <<x.geometry.location.latitude>>
      [] c = 8 -> <<x.geometry.location.longitude>>
      [] c = 9 -> <<x.geometry.viewport.northeast.latitude>>
      [] c = 10 -> <<x.geometry.viewport.northeast.longitude>>
      [] c = 11 -> <<x.geometry.viewport.southwest.latitude>>
      [] c = 12 -> <<x.geometry.viewport.southwest.longitude>>

\* C7: for a response with N >= 1 listings the statement reads as exactly N
\* row-value tuples, the i-th holding the twelve values of the i-th listing in
\* the order of the column list.
C7_OneTuplePerListingInColumnOrder ==
    \A r \in Reqs :
        (Parsed(r) /\ Len(Listings(r)) >= 1) =>
            /\ ParseStatement(query_string[r]).ok
            /\ Len(ParseStatement(query_string[r]).rows) = Len(Listings(r))
            /\ \A i \in DOMAIN Listings(r) :
                   /\ Len(ParseStatement(query_string[r]).rows[i]) = NumColumns
                   /\ \A c \in 1..NumColumns :
                          ParseStatement(query_string[r]).rows[i][c].v
                              = ColumnValue(Listings(r)[i], c)

\* C8: GET / and GET /index.html are answered 200 with the index bytes, POST
\* /nearby_restaurants enters the handler, and every other (method, path) is
\* answered 404 "Not Found"; only the handler's requests take any step that
\* calls upstream or the database.
C8_RouterDispatch ==
    \A r \in Reqs :
        /\ (req[r] # NoRequest /\ ~IsNearby(r)) => trace[r] = <<>>
        /\ pc[r] = "done" =>
              IF req[r].method = "GET" /\ req[r].path \in {"/", "/index.html"}
              THEN resp[r] = OkResponse(200, "", INDEX, NoJson)
              ELSE IF IsNearby(r)
              THEN trace[r] # <<>>
              ELSE resp[r] = OkResponse(404, "", NOTFOUND, NoJson)

C8_Witness ==
    \E r \in Reqs :
        /\ pc[r] = "done"
        /\ req[r].method = "PUT" /\ req[r].path = "/nearby_restaurants"
        /\ resp[r].status = 404 /\ resp[r].bytes = NOTFOUND

\* C9: whatever the interleaving of the requests' tasks, every step leaves
\* every row of the places table in the table, unchanged.
C9_TableIsAppendOnly == [][places \subseteq places']_vars

\* Two tasks past their upstream call at once, one of which has executed an
\* INSERT for a place the table holds under another name.
C9_Witness ==
    \E r1, r2 \in Reqs :
        /\ r1 # r2
        /\ "db_ok" \in Steps(r1) /\ Len(Listings(r1)) = 1
        /\ pc[r2] \in {"execute", "respond"}
        /\ \E row \in places :
               /\ row[PlaceIdColumn] = Listings(r1)[1].place_id
               /\ row[NameColumn] # Listings(r1)[1].name

StepOrder ==
    <<"api_key", "decode", "upstream_call", "upstream_ok", "db_execute", "db_ok", "response">>

\* The steps taken before the error, if there was one.
StepsTaken(r) ==
    IF trace[r] # <<>> /\ trace[r][Len(trace[r])] = "error"
    THEN SubSeq(trace[r], 1, Len(trace[r]) - 1)
    ELSE trace[r]

\* C10: the steps of nearby_restaurants are taken in the order read API key,
\* decode body, upstream call, database execute, build response; a 200
\* response is returned only after one upstream call and one database execute
\* both succeeded; a request whose database execute failed has no response.
C10_StepsInOrder ==
    \A r \in Reqs :
        /\ Len(StepsTaken(r)) <= Len(StepOrder)
        /\ StepsTaken(r) = SubSeq(StepOrder, 1, Len(StepsTaken(r)))
        /\ (IsNearby(r) /\ resp[r].kind = "Ok") => trace[r] = StepOrder
        /\ ("db_execute" \in Steps(r) /\ "db_ok" \notin Steps(r) /\ pc[r] = "done") =>
               resp[r].kind = "Err" /\ resp[r].json = NoJson

C10_Witness ==
    \E r \in Reqs :
        /\ pc[r] = "done" /\ Is200Json(r)
        /\ trace[r] = StepOrder
        /\ Len(resp[r].json.results) >= 1

\* ------------------------------------------------- supporting properties

\* No field that is written unescaped holds a quote.
NoBareQuote(x) ==
    /\ \A c \in StringColumns \ {NameColumn} : "'" \notin Range(StringField(x, c))
    /\ \A i \in DOMAIN x.types : "'" \notin Range(x.types[i])

\* A statement the store accepts on an empty table is accepted a second time
\* and then changes nothing.
AcceptedStatementIsIdempotent ==
    \A r \in Reqs :
        (query_string[r] # <<>> /\ ExecuteStatement({}, query_string[r]).ok) =>
            /\ ExecuteStatement(ExecuteStatement({}, query_string[r]).table,
                                query_string[r]).ok
            /\ ExecuteStatement(ExecuteStatement({}, query_string[r]).table,
                                query_string[r]).table
                   = ExecuteStatement({}, query_string[r]).table

\* With no quote in an unescaped field the statement reads as one tuple per
\* listing, in listing order, with the listing's values in column order.
QuoteFreeStatementHasOneTuplePerListing ==
    \A r \in Reqs :
        (Parsed(r) /\ Len(Listings(r)) >= 1
                   /\ \A i \in DOMAIN Listings(r) : NoBareQuote(Listings(r)[i])) =>
            /\ ParseStatement(query_string[r]).ok
            /\ Len(ParseStatement(query_string[r]).rows) = Len(Listings(r))
            /\ \A i \in DOMAIN Listings(r) : \A c \in 1..NumColumns :
                   ParseStatement(query_string[r]).rows[i][c]
                       = [k |-> ColumnKinds[c], v |-> ColumnValue(Listings(r)[i], c)]

\* The store accepts a statement exactly when it has a tuple and no unescaped
\* field holds a quote, unless the pool fails.
StatementAcceptedIffQuoteFree ==
    \A r \in Reqs :
        Parsed(r) =>
            (ExecuteStatement({}, query_string[r]).ok
                <=> /\ Listings(r) # <<>>
                    /\ \A i \in DOMAIN Listings(r) : NoBareQuote(Listings(r)[i]))

====
